---- MODULE Spec2Model ----
(***************************************************************************)
(* A model of sftp_server.go: the seven public operations of SFTPClient,   *)
(* each opening its own connection, working on the remote filesystem       *)
(* through it, and closing it.                                             *)
(*                                                                         *)
(* A Go string is a sequence of one-character strings: "/a/b" is           *)
(* <<"/", "a", "/", "b">>.  The remote filesystem is a tree of nodes; a    *)
(* node is named by the sequence of its path's non-empty components.       *)
(***************************************************************************)
EXTENDS Integers, Sequences, FiniteSets, TLC

\* ---------------------------------------------------------------- bounds
\* Longest file content, in bytes.
MaxLen == 2

\* Callers; caller 2 only runs in the concurrent specification.
Procs == {1, 2}
\* Byte values.
Bytes == {"x", "y"}

\* --------------------------------------------------------------- strings
\* strings.Split(s, "/"): the components between the slashes, empty ones kept.
Split(s) ==
  LET RECURSIVE go(_, _, _)
      go(i, cur, acc) ==
        IF i > Len(s) THEN Append(acc, cur)
        ELSE IF s[i] = "/" THEN go(i + 1, <<>>, Append(acc, cur))
        ELSE go(i + 1, Append(cur, s[i]), acc)
  IN go(1, <<>>, <<>>)

\* a + "/" + b
Slash(a, b) == a \o <<"/">> \o b

\* ---------------------------------------------------------------- inputs
\* filePath arguments of AppendToFile, OverwriteFile and ReadFile.
FilePaths == {<<"/", "b">>, <<"/", "a", "/", "b">>}
\* data arguments.
Payloads == {<<"x">>, <<"y">>, <<"x", "y">>}
\* dirPath arguments of the two directory-creating operations.
DirPaths ==
  {<<"/", "a">>, <<"/", "a", "/", "a">>, <<"/", "a", "/", "b", "/", "a">>}
\* dirPath arguments of CreateDirectoryRecursively: those, and "", "/",
\* "//a/" and "a//b/a/".
RecPaths ==
  DirPaths \cup {<<>>, <<"/">>, <<"/", "/", "a", "/">>,
                 <<"a", "/", "/", "b", "/", "a", "/">>}
\* dirPath arguments of the two listing operations.
ListRoots == {<<"/">>, <<"/", "a">>}

\* ---------------------------------------------------- remote filesystem
\* The node a path string names on the server: its non-empty components.
Resolve(s) == SelectSeq(Split(s), LAMBDA c : c # <<>>)

Root == <<>>
Parent(n) == SubSeq(n, 1, Len(n) - 1)
Prefixes(n) == {SubSeq(n, 1, k) : k \in 1..Len(n)}

\* The nodes of the remote tree: those the arguments above name, and the
\* directories on the way to them.
Nodes == UNION {Prefixes(Resolve(s)) : s \in FilePaths \cup RecPaths \cup ListRoots}

Absent == [kind |-> "none", data |-> <<>>]
Dir == [kind |-> "dir", data |-> <<>>]
File(d) == [kind |-> "file", data |-> d]

KindOf(f, n) ==
  IF n = Root THEN "dir"
  ELSE IF n \in Nodes THEN f[n].kind
  ELSE "none"

\* What the server answers to each request, when it does not fail for a
\* reason of its own.
StatOk(f, s) == KindOf(f, Resolve(s)) # "none"

MkdirOk(f, s) ==
  LET n == Resolve(s)
  IN n \in Nodes /\ f[n].kind = "none" /\ KindOf(f, Parent(n)) = "dir"

\* client.Create: O_RDWR|O_CREATE|O_TRUNC.
CreateOk(f, s) ==
  LET n == Resolve(s)
  IN n \in Nodes /\ f[n].kind # "dir" /\ KindOf(f, Parent(n)) = "dir"

\* client.OpenFile(O_APPEND|O_WRONLY), client.Open: the file must be there.
OpenOk(f, s) == KindOf(f, Resolve(s)) = "file"

ReadDirOk(f, s) == KindOf(f, Resolve(s)) = "dir"

EmptyTree == [n \in Nodes |-> Absent]

\* The entries of directory n.
Children(f, n) == {c \in Nodes : Parent(c) = n /\ f[c].kind # "none"}

\* A sequence holding each element of set S once, in any order.
Orders(S) ==
  {q \in [1..Cardinality(S) -> S] : \A i, j \in 1..Cardinality(S) : q[i] = q[j] => i = j}

\* os.FileInfo of node c, as ReadDir reports it.
Info(f, c) ==
  [name |-> c[Len(c)], size |-> Len(f[c].data), isDir |-> f[c].kind = "dir"]


\* ----------------------------------------------------------------- state
VARIABLES
  fs,           \* the remote filesystem: node -> [kind, data]
  faults,       \* whether the remote may fail a request it could serve
  pc,           \* per caller: where its invocation stands
  op,           \* per caller: the operation invoked and its arguments
  conn,         \* per caller: the transport connection ssh.Dial returned
  sess,         \* per caller: the protocol client sftp.NewClient returned
  file,         \* per caller: the remote file handle f
  err,          \* per caller: the error the invocation returns
  ret,          \* per caller: the value the invocation returns
  comps,        \* CreateDirectoryRecursively: pathComponents
  idx,          \* CreateDirectoryRecursively: position of the range loop
  currentPath,  \* CreateDirectoryRecursively: currentPath
  stack,        \* ListAllFiles: the frames of listAllFilesRecursive
  allFiles,     \* ListAllFiles: *allFiles
  log,          \* history: the requests this invocation has made
  fs0,          \* history: the remote filesystem when the invocation began
  prev          \* history: the invocation that returned last

vars == <<fs, faults, pc, op, conn, sess, file, err, ret, comps, idx,
          currentPath, stack, allFiles, log, fs0, prev>>

loopVars == <<comps, idx, currentPath>>
listVars == <<stack, allFiles>>

Nil == [req |-> "nil", path |-> <<>>]
Err(req, path) == [req |-> req, path |-> path]

NoOp == [name |-> "none", path |-> <<>>, data |-> <<>>]
NoFile == [node |-> Root, mode |-> "none", open |-> FALSE]
NoPrev == [op |-> NoOp, err |-> Nil, log |-> <<>>]

\* The answers the remote may give to a request it would serve (g) or not.
Outcome(g) == IF faults THEN {g, FALSE} ELSE {g}

Logged(p, req, path, ok) ==
  [log EXCEPT ![p] = Append(@, [req |-> req, path |-> path, ok |-> ok])]

InitCallers ==
  /\ pc = [p \in Procs |-> "idle"]
  /\ op = [p \in Procs |-> NoOp]
  /\ conn = [p \in Procs |-> "none"]
  /\ sess = [p \in Procs |-> "none"]
  /\ file = [p \in Procs |-> NoFile]
  /\ err = [p \in Procs |-> Nil]
  /\ ret = [p \in Procs |-> <<>>]
  /\ comps = [p \in Procs |-> <<>>]
  /\ idx = [p \in Procs |-> 1]
  /\ currentPath = [p \in Procs |-> <<>>]
  /\ stack = [p \in Procs |-> <<>>]
  /\ allFiles = [p \in Procs |-> <<>>]
  /\ log = [p \in Procs |-> <<>>]
  /\ fs0 = [p \in Procs |-> EmptyTree]
  /\ prev = NoPrev

\* Remote trees an invocation may find: every node but the root is absent,
\* a directory or a one-byte file, and only directories have entries.
InitTrees ==
  {t \in [Nodes -> {Absent, Dir, File(<<"x">>)}] :
     \A n \in Nodes : t[n].kind # "none" => KindOf(t, Parent(n)) = "dir"}

Init ==
  /\ fs \in InitTrees
  /\ faults \in BOOLEAN
  /\ InitCallers

\* ------------------------------------------------------------ invocation
\* A caller invokes operation name with the given arguments.
Invoke(p, name, path, data) ==
  /\ pc[p] = "idle"
  /\ op' = [op EXCEPT ![p] = [name |-> name, path |-> path, data |-> data]]
  /\ pc' = [pc EXCEPT ![p] = "dial"]
  /\ fs0' = [fs0 EXCEPT ![p] = fs]
  /\ UNCHANGED <<fs, faults, conn, sess, file, err, ret, loopVars, listVars, log, prev>>

\* As Body, with every operation connecting once more.
BodyReconnects(name) == "dial"

\* The first statement of each operation's body, after connect().
Body(name) ==
  CASE name = "AppendToFile" -> "stat"
    [] name = "OverwriteFile" -> "create"
    [] name = "ReadFile" -> "open"
    [] name = "ListOfFilesDir" -> "readdir"
    [] name = "ListAllFiles" -> "list"
    [] name = "CreateDirectoryIfNotExist" -> "stat"
    [] name = "CreateDirectoryRecursively" -> "split"

\* As AfterDial, with the check of err missing.
AfterDialUnchecked(ok) == "newclient"

\* Lines 41-43 and 56-58: a failed ssh.Dial ends connect and the operation.
AfterDial(ok) == IF ok THEN "newclient" ELSE "returned"

\* connect(), line 40: ssh.Dial.  On failure the operation returns the error.
Dial(p) ==
  /\ pc[p] = "dial"
  /\ \E ok \in Outcome(TRUE) :
       /\ log' = Logged(p, "Dial", <<>>, ok)
       /\ conn' = [conn EXCEPT ![p] = IF ok THEN "open" ELSE "none"]
       /\ err' = [err EXCEPT ![p] = IF ok THEN Nil ELSE Err("Dial", <<>>)]
       /\ pc' = [pc EXCEPT ![p] = AfterDial(ok)]
  /\ UNCHANGED <<fs, faults, op, sess, file, ret, loopVars, listVars, fs0, prev>>

\* connect(), line 46: sftp.NewClient(conn).  On failure connect returns
\* nil and the error; conn goes out of scope without conn.Close().
NewClient(p) ==
  /\ pc[p] = "newclient"
  /\ \E ok \in Outcome(TRUE) :
       /\ log' = Logged(p, "NewClient", <<>>, ok)
       /\ sess' = [sess EXCEPT ![p] = IF ok THEN "open" ELSE "none"]
       /\ err' = [err EXCEPT ![p] = IF ok THEN Nil ELSE Err("NewClient", <<>>)]
       /\ pc' = [pc EXCEPT ![p] = IF ok THEN Body(op[p].name) ELSE "returned"]
  /\ UNCHANGED <<fs, faults, op, conn, file, ret, loopVars, listVars, fs0, prev>>

\* defer f.Close(): the handle is released; the error Close returns is dropped.
CloseFile(p) ==
  /\ pc[p] = "closeFile"
  /\ \E ok \in Outcome(TRUE) :
       log' = Logged(p, "File.Close", op[p].path, ok)
  /\ file' = [file EXCEPT ![p].open = FALSE]
  /\ pc' = [pc EXCEPT ![p] = "closeClient"]
  /\ UNCHANGED <<fs, faults, op, conn, sess, err, ret, loopVars, listVars, fs0, prev>>

\* defer client.Close(): the protocol client is closed; the error Close
\* returns is dropped.  Nothing in the file calls Close on the connection
\* ssh.Dial returned.
CloseClient(p) ==
  /\ pc[p] = "closeClient"
  /\ \E ok \in Outcome(TRUE) :
       log' = Logged(p, "Client.Close", <<>>, ok)
  /\ sess' = [sess EXCEPT ![p] = "closed"]
  /\ pc' = [pc EXCEPT ![p] = "returned"]
  /\ UNCHANGED <<fs, faults, op, conn, file, err, ret, loopVars, listVars, fs0, prev>>

\* The caller has the result, and the invocation's locals are gone; its next
\* invocation may begin.
Return(p) ==
  /\ pc[p] = "returned"
  /\ pc' = [pc EXCEPT ![p] = "idle"]
  /\ prev' = [op |-> op[p], err |-> err[p], log |-> log[p]]
  /\ op' = [op EXCEPT ![p] = NoOp]
  /\ conn' = [conn EXCEPT ![p] = "none"]
  /\ sess' = [sess EXCEPT ![p] = "none"]
  /\ file' = [file EXCEPT ![p] = NoFile]
  /\ err' = [err EXCEPT ![p] = Nil]
  /\ ret' = [ret EXCEPT ![p] = <<>>]
  /\ comps' = [comps EXCEPT ![p] = <<>>]
  /\ idx' = [idx EXCEPT ![p] = 1]
  /\ currentPath' = [currentPath EXCEPT ![p] = <<>>]
  /\ stack' = [stack EXCEPT ![p] = <<>>]
  /\ allFiles' = [allFiles EXCEPT ![p] = <<>>]
  /\ log' = [log EXCEPT ![p] = <<>>]
  /\ fs0' = [fs0 EXCEPT ![p] = EmptyTree]
  /\ UNCHANGED <<fs, faults>>

\* ---------------------------------------------------------- AppendToFile
\* Line 62: client.Stat(filePath).  Any failure takes the create path.
\* As AppendAfterStat, with the branch for a file that exists missing.
AppendAlwaysCreates(ok) == "create"

\* As AppendAfterStat, with the create path missing.
AppendAlwaysOpens(ok) == "openFile"

AppendAfterStat(ok) == IF ok THEN "openFile" ELSE "create"

AppendStat(p) ==
  /\ pc[p] = "stat" /\ op[p].name = "AppendToFile"
  /\ \E ok \in Outcome(StatOk(fs, op[p].path)) :
       /\ log' = Logged(p, "Stat", op[p].path, ok)
       /\ pc' = [pc EXCEPT ![p] = AppendAfterStat(ok)]
  /\ UNCHANGED <<fs, faults, op, conn, sess, file, err, ret, loopVars, listVars,
                 fs0, prev>>

\* Line 65: client.OpenFile(filePath, os.O_APPEND|os.O_WRONLY).
AppendOpenFile(p) ==
  /\ pc[p] = "openFile"
  /\ \E ok \in Outcome(OpenOk(fs, op[p].path)) :
       /\ log' = Logged(p, "OpenFile", op[p].path, ok)
       /\ file' = [file EXCEPT ![p] =
            IF ok THEN [node |-> Resolve(op[p].path), mode |-> "append", open |-> TRUE]
            ELSE NoFile]
       /\ err' = [err EXCEPT ![p] = IF ok THEN Nil ELSE Err("OpenFile", op[p].path)]
       /\ pc' = [pc EXCEPT ![p] = IF ok THEN "write" ELSE "closeClient"]
  /\ UNCHANGED <<fs, faults, op, conn, sess, ret, loopVars, listVars, fs0, prev>>

\* As Created, for a file opened without O_TRUNC.
CreatedKeeps(old) == old

\* The content of a file client.Create has opened (O_RDWR|O_CREATE|O_TRUNC).
Created(old) == <<>>

\* client.Create(filePath): the file is created, or truncated when it is
\* there, and opened at offset 0.
CreateFile(p) ==
  /\ pc[p] = "create"
  /\ \E ok \in Outcome(CreateOk(fs, op[p].path)) :
       /\ log' = Logged(p, "Create", op[p].path, ok)
       /\ fs' = IF ok
                THEN [fs EXCEPT ![Resolve(op[p].path)] = File(Created(@.data))]
                ELSE fs
       /\ file' = [file EXCEPT ![p] =
            IF ok THEN [node |-> Resolve(op[p].path), mode |-> "create", open |-> TRUE]
            ELSE NoFile]
       /\ err' = [err EXCEPT ![p] = IF ok THEN Nil ELSE Err("Create", op[p].path)]
       /\ pc' = [pc EXCEPT ![p] = IF ok THEN "write" ELSE "closeClient"]
  /\ UNCHANGED <<faults, op, conn, sess, ret, loopVars, listVars, fs0, prev>>

\* Line 79.
AppendCreate(p) == op[p].name = "AppendToFile" /\ CreateFile(p)

\* The content after f.Write(data): a handle opened for append writes at the
\* end, a handle from Create writes from offset 0 over what is there.
Written(mode, old, data) ==
  IF mode = "append" THEN old \o data
  ELSE data \o SubSeq(old, Len(data) + 1, Len(old))

\* Lines 71, 85 and 107: f.Write([]byte(data)).
Write(p) ==
  /\ pc[p] = "write"
  /\ \E ok \in Outcome(TRUE) :
       /\ log' = Logged(p, "Write", op[p].path, ok)
       /\ fs' = IF ok
                THEN [fs EXCEPT ![file[p].node].data =
                        Written(file[p].mode, @, op[p].data)]
                ELSE fs
       /\ err' = [err EXCEPT ![p] = IF ok THEN Nil ELSE Err("Write", op[p].path)]
  /\ pc' = [pc EXCEPT ![p] = "closeFile"]
  /\ UNCHANGED <<faults, op, conn, sess, file, ret, loopVars, listVars, fs0, prev>>

\* --------------------------------------------------------- OverwriteFile
\* Line 101.
OverwriteCreate(p) == op[p].name = "OverwriteFile" /\ CreateFile(p)

\* -------------------------------------------------------------- ReadFile
\* Line 123: client.Open(filePath).
ReadOpen(p) ==
  /\ pc[p] = "open"
  /\ \E ok \in Outcome(OpenOk(fs, op[p].path)) :
       /\ log' = Logged(p, "Open", op[p].path, ok)
       /\ file' = [file EXCEPT ![p] =
            IF ok THEN [node |-> Resolve(op[p].path), mode |-> "read", open |-> TRUE]
            ELSE NoFile]
       /\ err' = [err EXCEPT ![p] = IF ok THEN Nil ELSE Err("Open", op[p].path)]
       /\ pc' = [pc EXCEPT ![p] = IF ok THEN "read" ELSE "closeClient"]
  /\ UNCHANGED <<fs, faults, op, conn, sess, ret, loopVars, listVars, fs0, prev>>

\* As ReadAll, for a single f.Read into a one-byte buffer.
ReadOnce(content) == SubSeq(content, 1, 1)

\* What buf.ReadFrom(f) leaves in buf: all of the file, to its end.
ReadAll(content) == content

\* Lines 130-136.
ReadFrom(p) ==
  /\ pc[p] = "read"
  /\ \E ok \in Outcome(TRUE) :
       /\ log' = Logged(p, "Read", op[p].path, ok)
       /\ ret' = [ret EXCEPT ![p] = IF ok THEN ReadAll(fs[file[p].node].data) ELSE <<>>]
       /\ err' = [err EXCEPT ![p] = IF ok THEN Nil ELSE Err("Read", op[p].path)]
  /\ pc' = [pc EXCEPT ![p] = "closeFile"]
  /\ UNCHANGED <<fs, faults, op, conn, sess, file, loopVars, listVars, fs0, prev>>

\* -------------------------------------------------------- ListOfFilesDir
\* client.ReadDir(path): the entries of the directory, in the server's order.
Listings(f, path) ==
  {[i \in 1..Len(q) |-> Info(f, q[i])] : q \in Orders(Children(f, Resolve(path)))}

\* Line 147.
ListDir(p) ==
  /\ pc[p] = "readdir"
  /\ \E ok \in Outcome(ReadDirOk(fs, op[p].path)) :
       /\ log' = Logged(p, "ReadDir", op[p].path, ok)
       /\ \E files \in (IF ok THEN Listings(fs, op[p].path) ELSE {<<>>}) :
            ret' = [ret EXCEPT ![p] = files]
       /\ err' = [err EXCEPT ![p] = IF ok THEN Nil ELSE Err("ReadDir", op[p].path)]
  /\ pc' = [pc EXCEPT ![p] = "closeClient"]
  /\ UNCHANGED <<fs, faults, op, conn, sess, file, loopVars, listVars, fs0, prev>>


\* -------------------------------------------------------- ListAllFiles
\* A frame of listAllFilesRecursive: its arguments, the listing it got and
\* the position of its range loop.
Frame(dirPath, prefix) ==
  [dirPath |-> dirPath, prefix |-> prefix, files |-> <<>>, i |-> 1]

Top(p) == stack[p][Len(stack[p])]
SetTop(p, fr) == [stack EXCEPT ![p] = [@ EXCEPT ![Len(@)] = fr]]

\* Lines 162-163: allFiles is nil and the walk starts at dirPath with prefix "".
ListStart(p) ==
  /\ pc[p] = "list"
  /\ stack' = [stack EXCEPT ![p] = <<Frame(op[p].path, <<>>)>>]
  /\ allFiles' = [allFiles EXCEPT ![p] = <<>>]
  /\ pc' = [pc EXCEPT ![p] = "lsdir"]
  /\ UNCHANGED <<fs, faults, op, conn, sess, file, err, ret, loopVars, log, fs0, prev>>

\* As ListResult, returning what was gathered whatever the walk returned.
ListResultAlways(e, files) == files

\* What ListAllFiles returns when the walk has returned e: lines 164-168.
ListResult(e, files) == IF e = Nil THEN files ELSE <<>>

\* Lines 172-175: client.ReadDir(dirPath) of the frame on top.  On failure
\* the frame returns the error, and so does every frame below it (line 181).
ListReadDir(p) ==
  /\ pc[p] = "lsdir"
  /\ \E ok \in Outcome(ReadDirOk(fs, Top(p).dirPath)) :
       /\ log' = Logged(p, "ReadDir", Top(p).dirPath, ok)
       /\ IF ok
          THEN /\ \E files \in Listings(fs, Top(p).dirPath) :
                    stack' = SetTop(p, [Top(p) EXCEPT !.files = files])
               /\ pc' = [pc EXCEPT ![p] = "lsloop"]
               /\ UNCHANGED <<err, ret>>
          ELSE /\ stack' = [stack EXCEPT ![p] = <<>>]
               /\ err' = [err EXCEPT ![p] = Err("ReadDir", Top(p).dirPath)]
               /\ ret' = [ret EXCEPT ![p] =
                    ListResult(Err("ReadDir", Top(p).dirPath), allFiles[p])]
               /\ pc' = [pc EXCEPT ![p] = "closeClient"]
  /\ UNCHANGED <<fs, faults, op, conn, sess, file, loopVars, allFiles, fs0, prev>>

\* As NewFile, naming the record by the entry's own name.
NewFileBare(prefix, f) ==
  [name |-> Slash(<<>>, f.name), size |-> f.size, isDir |-> f.isDir]

\* Lines 185-192: the record of a non-directory entry f found under prefix.
NewFile(prefix, f) ==
  [name |-> Slash(prefix, f.name), size |-> f.size, isDir |-> f.isDir]

\* As Appended, with the record put in front.
Prepended(files, f) == <<f>> \o files

\* Line 194: *allFiles = append(*allFiles, *newFile).
Appended(files, f) == Append(files, f)

\* As IsDirEntry, taking every entry for a file.
IsDirEntryNever(f) == FALSE

\* Line 177: f.IsDir().
IsDirEntry(f) == f.isDir

\* Lines 176-198: one turn of the range loop of the frame on top.  A
\* directory entry opens a frame for it, another entry is recorded, and at
\* the end of the listing the frame returns nil to the frame below, whose
\* loop moves on, or to ListAllFiles.
ListEntry(p) ==
  /\ pc[p] = "lsloop"
  /\ LET t == Top(p)
         n == Len(stack[p])
     IN IF t.i > Len(t.files)
        THEN IF n = 1
             THEN /\ stack' = [stack EXCEPT ![p] = <<>>]
                  /\ err' = [err EXCEPT ![p] = Nil]
                  /\ ret' = [ret EXCEPT ![p] = ListResult(Nil, allFiles[p])]
                  /\ pc' = [pc EXCEPT ![p] = "closeClient"]
                  /\ UNCHANGED allFiles
             ELSE /\ stack' = [stack EXCEPT ![p] =
                       [SubSeq(@, 1, n - 1) EXCEPT ![n - 1].i = @ + 1]]
                  /\ UNCHANGED <<err, ret, pc, allFiles>>
        ELSE IF IsDirEntry(t.files[t.i])
             THEN /\ stack' = [stack EXCEPT ![p] =
                       Append(@, Frame(Slash(t.dirPath, t.files[t.i].name),
                                       Slash(t.prefix, t.files[t.i].name)))]
                  /\ pc' = [pc EXCEPT ![p] = "lsdir"]
                  /\ UNCHANGED <<err, ret, allFiles>>
             ELSE /\ allFiles' = [allFiles EXCEPT ![p] =
                       Appended(@, NewFile(t.prefix, t.files[t.i]))]
                  /\ stack' = SetTop(p, [t EXCEPT !.i = @ + 1])
                  /\ UNCHANGED <<err, ret, pc>>
  /\ UNCHANGED <<fs, faults, op, conn, sess, file, loopVars, log, fs0, prev>>

\* --------------------------------------------- CreateDirectoryIfNotExist
\* Line 208: client.Stat(dirPath).  When it succeeds there is nothing to do.
\* As DirAfterStat, with the "already exists" return missing.
DirAlwaysCreates(ok) == "mkdir"

DirAfterStat(ok) == IF ok THEN "closeClient" ELSE "mkdir"

DirStat(p) ==
  /\ pc[p] = "stat" /\ op[p].name = "CreateDirectoryIfNotExist"
  /\ \E ok \in Outcome(StatOk(fs, op[p].path)) :
       /\ log' = Logged(p, "Stat", op[p].path, ok)
       /\ pc' = [pc EXCEPT ![p] = DirAfterStat(ok)]
  /\ UNCHANGED <<fs, faults, op, conn, sess, file, err, ret, loopVars, listVars,
                 fs0, prev>>

\* Line 215: client.Mkdir(dirPath).
DirMkdir(p) ==
  /\ pc[p] = "mkdir"
  /\ \E ok \in Outcome(MkdirOk(fs, op[p].path)) :
       /\ log' = Logged(p, "Mkdir", op[p].path, ok)
       /\ fs' = IF ok THEN [fs EXCEPT ![Resolve(op[p].path)] = Dir] ELSE fs
       /\ err' = [err EXCEPT ![p] = IF ok THEN Nil ELSE Err("Mkdir", op[p].path)]
  /\ pc' = [pc EXCEPT ![p] = "closeClient"]
  /\ UNCHANGED <<faults, op, conn, sess, file, ret, loopVars, listVars, fs0, prev>>

\* -------------------------------------------- CreateDirectoryRecursively
\* Lines 231 and 234.
RecSplit(p) ==
  /\ pc[p] = "split"
  /\ comps' = [comps EXCEPT ![p] = Split(op[p].path)]
  /\ idx' = [idx EXCEPT ![p] = 1]
  /\ currentPath' = [currentPath EXCEPT ![p] = <<>>]
  /\ pc' = [pc EXCEPT ![p] = "loop"]
  /\ UNCHANGED <<fs, faults, op, conn, sess, file, err, ret, listVars, log, fs0, prev>>

\* As Skipped, with no component skipped.
SkippedNever(component) == FALSE

\* Line 236: component == "".
Skipped(component) == component = <<>>

\* As Extended, but the path built so far is lost: "/" + component.
ExtendedFromRoot(path, component) == Slash(<<>>, component)

\* Line 240: currentPath += "/" + component.
Extended(path, component) == Slash(path, component)

\* Lines 235-240 and 251: the range loop takes the next component, skips it
\* when it is empty, and else extends currentPath; after the last one the
\* operation returns nil.
RecLoop(p) ==
  /\ pc[p] = "loop"
  /\ IF idx[p] > Len(comps[p])
     THEN /\ err' = [err EXCEPT ![p] = Nil]
          /\ pc' = [pc EXCEPT ![p] = "closeClient"]
          /\ UNCHANGED <<idx, currentPath>>
     ELSE IF Skipped(comps[p][idx[p]])
          THEN /\ idx' = [idx EXCEPT ![p] = @ + 1]
               /\ UNCHANGED <<err, pc, currentPath>>
          ELSE /\ currentPath' = [currentPath EXCEPT ![p] = Extended(@, comps[p][idx[p]])]
               /\ pc' = [pc EXCEPT ![p] = "rstat"]
               /\ UNCHANGED <<err, idx>>
  /\ UNCHANGED <<fs, faults, op, conn, sess, file, ret, comps, listVars, log, fs0, prev>>

\* As RecAfterStat, with the "already exists" continue missing.
RecAlwaysCreates(ok) == "rmkdir"

\* Lines 241-245: client.Stat(currentPath); the loop continues when it
\* succeeds.
RecAfterStat(ok) == IF ok THEN "loop" ELSE "rmkdir"

RecStat(p) ==
  /\ pc[p] = "rstat"
  /\ \E ok \in Outcome(StatOk(fs, currentPath[p])) :
       /\ log' = Logged(p, "Stat", currentPath[p], ok)
       /\ pc' = [pc EXCEPT ![p] = RecAfterStat(ok)]
       /\ idx' = [idx EXCEPT ![p] = IF RecAfterStat(ok) = "loop" THEN @ + 1 ELSE @]
  /\ UNCHANGED <<fs, faults, op, conn, sess, file, err, ret, comps, currentPath,
                 listVars, fs0, prev>>

\* As RecAfterMkdir, with the check of err missing.
RecMkdirUnchecked(ok) == "loop"

\* Lines 247-249: a failed Mkdir ends the operation.
RecAfterMkdir(ok) == IF ok THEN "loop" ELSE "closeClient"

\* Lines 246-249: client.Mkdir(currentPath).
RecMkdir(p) ==
  /\ pc[p] = "rmkdir"
  /\ \E ok \in Outcome(MkdirOk(fs, currentPath[p])) :
       /\ log' = Logged(p, "Mkdir", currentPath[p], ok)
       /\ fs' = IF ok THEN [fs EXCEPT ![Resolve(currentPath[p])] = Dir] ELSE fs
       /\ err' = [err EXCEPT ![p] = IF ok THEN Nil ELSE Err("Mkdir", currentPath[p])]
       /\ pc' = [pc EXCEPT ![p] = RecAfterMkdir(ok)]
       /\ idx' = [idx EXCEPT ![p] = IF RecAfterMkdir(ok) = "loop" THEN @ + 1 ELSE @]
  /\ UNCHANGED <<faults, op, conn, sess, file, ret, comps, currentPath, listVars,
                 fs0, prev>>

\* ------------------------------------------------------------- the calls
\* The content of the file at path, <<>> when there is none.
ContentAt(f, path) ==
  IF Resolve(path) \in Nodes THEN f[Resolve(path)].data ELSE <<>>

CallAppendToFile(p) ==
  \E path \in FilePaths, data \in Payloads :
    /\ Len(ContentAt(fs, path)) + Len(data) <= MaxLen
    /\ Invoke(p, "AppendToFile", path, data)

CallOverwriteFile(p) ==
  \E path \in FilePaths, data \in Payloads :
    /\ Len(data) <= MaxLen
    /\ Invoke(p, "OverwriteFile", path, data)

CallReadFile(p) ==
  \E path \in FilePaths : Invoke(p, "ReadFile", path, <<>>)

CallListOfFilesDir(p) ==
  \E path \in ListRoots : Invoke(p, "ListOfFilesDir", path, <<>>)

CallListAllFiles(p) ==
  \E path \in ListRoots : Invoke(p, "ListAllFiles", path, <<>>)

CallCreateDirectoryIfNotExist(p) ==
  \E path \in DirPaths : Invoke(p, "CreateDirectoryIfNotExist", path, <<>>)

CallCreateDirectoryRecursively(p) ==
  \E path \in RecPaths : Invoke(p, "CreateDirectoryRecursively", path, <<>>)

\* -------------------------------------------------------- specifications
\* The steps of connect() and of the deferred closes.
Session(p) == Dial(p) \/ NewClient(p) \/ CloseClient(p)

FileSteps(p) ==
  \/ AppendStat(p) \/ AppendOpenFile(p) \/ AppendCreate(p) \/ Write(p)
  \/ OverwriteCreate(p)
  \/ ReadOpen(p) \/ ReadFrom(p)
  \/ CloseFile(p)

ListSteps(p) == ListDir(p) \/ ListStart(p) \/ ListReadDir(p) \/ ListEntry(p)

DirSteps(p) ==
  \/ DirStat(p) \/ DirMkdir(p)
  \/ RecSplit(p) \/ RecLoop(p) \/ RecStat(p) \/ RecMkdir(p)

\* One invocation of any public operation, on any remote tree.
Next ==
  \E p \in {1} :
    \/ CallAppendToFile(p) \/ CallOverwriteFile(p) \/ CallReadFile(p)
    \/ CallListOfFilesDir(p) \/ CallListAllFiles(p)
    \/ CallCreateDirectoryIfNotExist(p) \/ CallCreateDirectoryRecursively(p)
    \/ Session(p) \/ FileSteps(p) \/ ListSteps(p) \/ DirSteps(p)

Spec == Init /\ [][Next]_vars


\* A remote that fails no request it can serve.
InitDir == Init /\ ~faults

\* Invocations of the two directory-creating operations, one after another,
\* on any remote tree.
NextDir ==
  \E p \in {1} :
    \/ CallCreateDirectoryIfNotExist(p) \/ CallCreateDirectoryRecursively(p)
    \/ Session(p) \/ DirSteps(p) \/ Return(p)

SpecDir == InitDir /\ [][NextDir]_vars

\* Remote trees with no file yet: each top-level directory is there or not.
FileTrees ==
  {t \in InitTrees : \A n \in Nodes : t[n].kind # "none" => t[n].kind = "dir" /\ Len(n) = 1}

InitFile ==
  /\ fs \in FileTrees
  /\ faults = FALSE
  /\ InitCallers

\* Invocations of the three file operations, one after another.
NextFile ==
  \E p \in {1} :
    \/ CallAppendToFile(p) \/ CallOverwriteFile(p) \/ CallReadFile(p)
    \/ Session(p) \/ FileSteps(p) \/ Return(p)

SpecFile == InitFile /\ [][NextFile]_vars


\* Remote trees of directories only: a create can fail only because the
\* directory is there.
DirTrees == {t \in InitTrees : \A n \in Nodes : t[n].kind # "file"}

InitRaceDir ==
  /\ fs \in DirTrees
  /\ faults = FALSE
  /\ InitCallers

\* A caller invokes CreateDirectoryRecursively, on the path the other caller
\* has invoked it on when it has.
CallRaceDir(p) ==
  \E path \in RecPaths :
    /\ \A q \in Procs \ {p} : op[q] # NoOp => op[q].path = path
    /\ Invoke(p, "CreateDirectoryRecursively", path, <<>>)

RecSteps(p) == RecSplit(p) \/ RecLoop(p) \/ RecStat(p) \/ RecMkdir(p)

\* Two invocations of CreateDirectoryRecursively on one path, their steps
\* interleaved in every way.
NextRaceDir ==
  \E p \in Procs : CallRaceDir(p) \/ Session(p) \/ RecSteps(p)

SpecRaceDir == InitRaceDir /\ [][NextRaceDir]_vars

InitRaceAppend ==
  /\ fs \in InitTrees
  /\ faults = FALSE
  /\ InitCallers

\* A caller invokes AppendToFile, on the path the other caller has invoked
\* it on when it has; the content and the two payloads fit in MaxLen + 1
\* bytes.
CallRaceAppend(p) ==
  \E path \in FilePaths, data \in Payloads :
    /\ \A q \in Procs \ {p} :
         /\ op[q] # NoOp => op[q].path = path
         /\ Len(ContentAt(fs, path)) + Len(data) + Len(op[q].data) <= MaxLen + 1
    /\ Invoke(p, "AppendToFile", path, data)

AppendSteps(p) ==
  \/ AppendStat(p) \/ AppendOpenFile(p) \/ AppendCreate(p) \/ Write(p)
  \/ CloseFile(p)

\* Two invocations of AppendToFile on one path, their steps interleaved in
\* every way.
NextRaceAppend ==
  \E p \in Procs : CallRaceAppend(p) \/ Session(p) \/ AppendSteps(p)

SpecRaceAppend == InitRaceAppend /\ [][NextRaceAppend]_vars

\* ================================================================ claims
Returned(p, name) == pc[p] = "returned" /\ op[p].name = name

\* "/s1/s2/.../sn" for the segments s1..sn.
RECURSIVE Joined(_)
Joined(segs) ==
  IF segs = <<>> THEN <<>>
  ELSE Slash(Joined(SubSeq(segs, 1, Len(segs) - 1)), segs[Len(segs)])

\* The prefixes /s1, /s1/s2, ... of a path, left to right.
PrefixStrings(path) ==
  [i \in 1..Len(Resolve(path)) |-> Joined(SubSeq(Resolve(path), 1, i))]

\* Those of them that do not exist in tree f.
MissingPrefixes(f, path) ==
  SelectSeq(PrefixStrings(path), LAMBDA s : ~StatOk(f, s))

\* The paths of the requests req in log l, in the order they were made.
Requested(l, req) ==
  LET m == SelectSeq(l, LAMBDA e : e.req = req)
  IN [i \in 1..Len(m) |-> m[i].path]

Range(q) == {q[i] : i \in 1..Len(q)}

\* --------------------------------------------------------------------- C1
\* C1: when a public operation has returned, whether with a result or with
\* an error at any step, the transport connection and the protocol client
\* its invocation opened are both closed.
C1_ClosedOnReturn ==
  \A p \in Procs :
    pc[p] = "returned" => conn[p] # "open" /\ sess[p] # "open"

\* --------------------------------------------------------------------- C2
\* Every create in log l is for a prefix of path, the creates go strictly
\* left to right, each follows the failed probe of the same prefix, and the
\* request before that probe is the successful probe or create of the
\* parent prefix.
CreatesInOrder(l, path) ==
  LET c == Requested(l, "Mkdir")
  IN /\ \A i \in 1..Len(c) : c[i] \in Range(PrefixStrings(path))
     /\ \A i, j \in 1..Len(c) : i < j => Len(c[i]) < Len(c[j])

ParentsConfirmed(l) ==
  \A k \in 1..Len(l) :
    l[k].req = "Mkdir" =>
      /\ k >= 2
      /\ l[k - 1] = [req |-> "Stat", path |-> l[k].path, ok |-> FALSE]
      /\ (Len(Resolve(l[k].path)) > 1) =>
           /\ k >= 3
           /\ l[k - 2].req \in {"Stat", "Mkdir"}
           /\ l[k - 2].path = Joined(Parent(Resolve(l[k].path)))
           /\ l[k - 2].ok

\* C2 as claimed, for a remote that fails no request it can serve: when
\* CreateDirectoryRecursively has returned, it has issued creates for exactly
\* the prefixes that did not exist, left to right, each after its parent was
\* probed as existing or created.
C2_CreatesExactlyMissing ==
  \A p \in Procs :
    Returned(p, "CreateDirectoryRecursively") /\ ~faults =>
      /\ Requested(log[p], "Mkdir") = MissingPrefixes(fs0[p], op[p].path)
      /\ ParentsConfirmed(log[p])

\* C2 as amended: a call that returns success has issued creates for exactly
\* the prefixes that did not exist, left to right; and every call, at every
\* step, has issued its creates strictly left to right, each for a prefix
\* whose probe had just failed and whose parent prefix had just been probed
\* as existing or created.
C2_CreatesMissingOnSuccess ==
  \A p \in Procs :
    op[p].name = "CreateDirectoryRecursively" =>
      /\ CreatesInOrder(log[p], op[p].path)
      /\ ParentsConfirmed(log[p])
      /\ (pc[p] = "returned" /\ err[p] = Nil) =>
           Requested(log[p], "Mkdir") = MissingPrefixes(fs0[p], op[p].path)

\* A successful call on a path whose first prefix existed and whose other
\* two it created.
C2_Witness ==
  /\ Returned(1, "CreateDirectoryRecursively") /\ err[1] = Nil
  /\ Len(Requested(log[1], "Mkdir")) = 2
  /\ Len(MissingPrefixes(fs0[1], op[1].path)) = 2
  /\ Len(PrefixStrings(op[1].path)) = 3


\* --------------------------------------------------------------------- C3
\* The invocation before this one was the same call and it returned e.
Repeats(p, e) == prev.op = op[p] /\ prev.err = e

\* The nodes other than the one path names are as they were.
OthersKept(p, path) ==
  \A n \in Nodes \ {Resolve(path)} : fs[n] = fs0[p][n]

\* C3 as claimed: for every path p that was not present, after
\* CreateDirectoryIfNotExist(p) a probe of p reports present; and a second
\* call right after the first issues no create, returns what the first
\* returned and leaves the remote state as the first left it.
C3_EnsureThenPresent ==
  \A p \in Procs :
    Returned(p, "CreateDirectoryIfNotExist") =>
      /\ (~StatOk(fs0[p], op[p].path)) => StatOk(fs, op[p].path)
      /\ (prev.op = op[p]) =>
           /\ Requested(log[p], "Mkdir") = <<>>
           /\ err[p] = prev.err
           /\ fs = fs0[p]

\* C3 as amended: for every path p that was not present, after a
\* CreateDirectoryIfNotExist(p) that returns success p is a directory, a
\* probe of p reports present and nothing else has changed; and a second
\* call right after a successful one issues no create, returns success and
\* leaves the remote state unchanged.
C3_EnsureIdempotentOnSuccess ==
  \A p \in Procs :
    Returned(p, "CreateDirectoryIfNotExist") =>
      /\ (~StatOk(fs0[p], op[p].path) /\ err[p] = Nil) =>
           /\ StatOk(fs, op[p].path)
           /\ KindOf(fs, Resolve(op[p].path)) = "dir"
           /\ OthersKept(p, op[p].path)
      /\ Repeats(p, Nil) =>
           /\ Requested(log[p], "Mkdir") = <<>>
           /\ err[p] = Nil
           /\ fs = fs0[p]

\* The second of two calls in a row has returned, and the first had created
\* the directory.
C3_Witness ==
  /\ Returned(1, "CreateDirectoryIfNotExist") /\ Repeats(1, Nil)
  /\ \E k \in 1..Len(prev.log) : prev.log[k].req = "Mkdir" /\ prev.log[k].ok
  /\ err[1] = Nil

\* --------------------------------------------------------------------- C4
\* C4: a CreateDirectoryRecursively(p) that returns success leaves every
\* prefix of p existing, whichever of them existed before; a call repeated
\* right after it issues no create, returns success and leaves the remote
\* filesystem unchanged.
C4_MakePathIdempotent ==
  \A p \in Procs :
    Returned(p, "CreateDirectoryRecursively") =>
      /\ (err[p] = Nil) =>
           \A s \in Range(PrefixStrings(op[p].path)) : StatOk(fs, s)
      /\ Repeats(p, Nil) =>
           /\ Requested(log[p], "Mkdir") = <<>>
           /\ err[p] = Nil
           /\ fs = fs0[p]

\* The second of two calls in a row has returned; the first had found one
\* prefix existing and created another.
C4_Witness ==
  /\ Returned(1, "CreateDirectoryRecursively") /\ Repeats(1, Nil)
  /\ \E k \in 1..Len(prev.log) : prev.log[k].req = "Mkdir" /\ prev.log[k].ok
  /\ \E k \in 1..Len(prev.log) : prev.log[k].req = "Stat" /\ prev.log[k].ok
  /\ Len(PrefixStrings(op[1].path)) = 3
  /\ err[1] = Nil


\* --------------------------------------------------------------------- C5
\* Tree f after the file at path has been replaced by one holding data, when
\* it can be created there; f itself when it cannot.
Overwritten(f, path, data) ==
  IF CreateOk(f, path) THEN [f EXCEPT ![Resolve(path)] = File(data)] ELSE f

\* C5: AppendToFile(path, X) on a file that does not exist leaves the remote
\* state, and returns the outcome, that OverwriteFile(path, X) leaves and
\* returns from the same state; AppendToFile(path, Y) on a file holding X
\* leaves it holding X followed by Y, and nothing else changed.
C5_AppendCreatesOrExtends ==
  \A p \in Procs :
    pc[p] = "returned" =>
      /\ (\/ op[p].name = "OverwriteFile"
          \/ (op[p].name = "AppendToFile" /\ ~StatOk(fs0[p], op[p].path)))
         => /\ fs = Overwritten(fs0[p], op[p].path, op[p].data)
            /\ (err[p] = Nil) <=> CreateOk(fs0[p], op[p].path)
      /\ (op[p].name = "AppendToFile" /\ OpenOk(fs0[p], op[p].path))
         => /\ fs = [fs0[p] EXCEPT ![Resolve(op[p].path)] =
                       File(@.data \o op[p].data)]
            /\ err[p] = Nil

\* An append of "y" to a file holding "x" has returned, and the file, which
\* the append before it had created, holds "xy".
C5_Witness ==
  /\ Returned(1, "AppendToFile")
  /\ ContentAt(fs0[1], op[1].path) = <<"x">> /\ op[1].data = <<"y">>
  /\ ContentAt(fs, op[1].path) = <<"x", "y">>
  /\ prev.op.name = "AppendToFile" /\ prev.op.path = op[1].path
  /\ \E k \in 1..Len(prev.log) : prev.log[k].req = "Create" /\ prev.log[k].ok

\* --------------------------------------------------------------------- C6
\* C6: after an OverwriteFile(path, B) that returns success the file holds
\* exactly B and nothing else changed, whatever was at path before; so it is
\* after a successful OverwriteFile(path, A), whatever the lengths of A and B.
C6_OverwriteReplaces ==
  \A p \in Procs :
    Returned(p, "OverwriteFile") /\ err[p] = Nil =>
      /\ fs[Resolve(op[p].path)] = File(op[p].data)
      /\ OthersKept(p, op[p].path)

\* The second of two successful overwrites of a path has returned, the
\* first with the longer payload.
C6_Witness ==
  /\ Returned(1, "OverwriteFile") /\ err[1] = Nil
  /\ prev.op.name = "OverwriteFile" /\ prev.op.path = op[1].path
  /\ prev.err = Nil
  /\ Len(prev.op.data) > Len(op[1].data)
  /\ ContentAt(fs0[1], op[1].path) = prev.op.data

\* --------------------------------------------------------------------- C7
\* C7: a ReadFile(path) that returns success returns the content the file
\* had; right after a successful OverwriteFile(path, data) that is data.
C7_ReadReturnsWritten ==
  \A p \in Procs :
    Returned(p, "ReadFile") /\ err[p] = Nil =>
      /\ ret[p] = ContentAt(fs0[p], op[p].path)
      /\ (prev.op.name = "OverwriteFile" /\ prev.op.path = op[p].path
            /\ prev.err = Nil)
         => ret[p] = prev.op.data

\* A read right after a successful overwrite with a two-byte payload.
C7_Witness ==
  /\ Returned(1, "ReadFile") /\ err[1] = Nil
  /\ prev.op.name = "OverwriteFile" /\ prev.op.path = op[1].path
  /\ prev.err = Nil /\ prev.op.data = <<"x", "y">>
  /\ ret[1] = <<"x", "y">>


\* --------------------------------------------------------------------- C8
\* The node a listing operation was given as its root.
RootOf(p) == Resolve(op[p].path)

\* The non-directory entries of tree f below node r.
FilesUnder(f, r) ==
  {n \in Nodes : /\ Len(n) > Len(r)
                 /\ SubSeq(n, 1, Len(r)) = r
                 /\ f[n].kind = "file"}

\* "/" followed by the slash-joined position of node n relative to node r.
RelativePath(n, r) == Joined(SubSeq(n, Len(r) + 1, Len(n)))

\* The record the claim gives the non-directory entry n below r.
RecordOf(f, n, r) ==
  [name |-> RelativePath(n, r), size |-> Len(f[n].data), isDir |-> FALSE]

\* C8: a ListAllFiles(root) that returns success returns one record for
\* each non-directory entry below root and no other; the record's path is
\* "/" followed by the entry's position relative to root, not its path
\* with the root in front, and its isDir is false.
C8_OneRecordPerFile ==
  \A p \in Procs :
    Returned(p, "ListAllFiles") /\ err[p] = Nil =>
      LET want == {RecordOf(fs0[p], n, RootOf(p)) : n \in FilesUnder(fs0[p], RootOf(p))}
      IN /\ Range(ret[p]) = want
         /\ Len(ret[p]) = Cardinality(FilesUnder(fs0[p], RootOf(p)))
         /\ \A i \in 1..Len(ret[p]) :
              /\ ~ret[p][i].isDir
              /\ RootOf(p) # Root =>
                   ret[p][i].name \notin {Joined(n) : n \in FilesUnder(fs0[p], RootOf(p))}

\* ListAllFiles("/a") has returned two records, one of them "/b/a" for the
\* file /a/b/a in the subdirectory /a/b.
C8_Witness ==
  /\ Returned(1, "ListAllFiles") /\ err[1] = Nil
  /\ op[1].path = <<"/", "a">>
  /\ Len(ret[1]) = 2
  /\ \E i \in 1..2 : ret[1][i].name = <<"/", "b", "/", "a">>

\* --------------------------------------------------------------------- C9
\* C9: once a directory listing of ListAllFiles has failed, no other
\* directory is listed, and the call returns the error of that listing and
\* no record, whatever it had gathered.
C9_ListingFailureAborts ==
  \A p \in Procs :
    op[p].name = "ListAllFiles" =>
      \A k \in 1..Len(log[p]) :
        (log[p][k].req = "ReadDir" /\ ~log[p][k].ok) =>
          /\ \A j \in (k + 1)..Len(log[p]) : log[p][j].req # "ReadDir"
          /\ pc[p] \in {"closeClient", "returned"}
          /\ err[p] = Err("ReadDir", log[p][k].path)
          /\ ret[p] = <<>>

\* The listing of a subdirectory failed after a record had been gathered.
C9_Witness ==
  /\ Returned(1, "ListAllFiles")
  /\ \E k \in 1..Len(log[1]) :
       /\ log[1][k].req = "ReadDir" /\ ~log[1][k].ok
       /\ Len(Resolve(log[1][k].path)) > Len(RootOf(1))
  /\ allFiles[1] # <<>>
  /\ ret[1] = <<>>

\* -------------------------------------------------------------------- C10
\* C10: ListAllFiles on a directory with no file below it, be it empty or a
\* tree of directories, returns no error when the remote fails no request
\* it can serve, and a call that returns no error returns no record.
C10_EmptyTreeEmptyList ==
  \A p \in Procs :
    ( /\ Returned(p, "ListAllFiles")
      /\ ReadDirOk(fs0[p], op[p].path)
      /\ FilesUnder(fs0[p], RootOf(p)) = {} ) =>
      /\ ~faults => err[p] = Nil
      /\ (err[p] = Nil) => ret[p] = <<>>

\* ListAllFiles has returned from a tree of three nested directories.
C10_Witness ==
  /\ Returned(1, "ListAllFiles") /\ ~faults
  /\ FilesUnder(fs0[1], RootOf(1)) = {}
  /\ Len(Requested(log[1], "ReadDir")) >= 3
  /\ err[1] = Nil /\ ret[1] = <<>>


\* -------------------------------------------------------------------- C11
\* The positions at which an invocation makes a request over its client.
AtRequest ==
  {"stat", "openFile", "create", "write", "open", "read", "closeFile",
   "readdir", "lsdir", "mkdir", "rstat", "rmkdir", "closeClient"}

\* C11: an invocation dials at most once and opens at most one client, and
\* exactly one of each when it made any request over a client; every such
\* request comes after the client was opened and none after it was closed,
\* and while the invocation stands at a request the client it opened is
\* open.  So it is however many directories ListAllFiles lists and however
\* many segments CreateDirectoryRecursively goes through.
C11_OneSessionPerInvocation ==
  \A p \in Procs :
    /\ Len(Requested(log[p], "Dial")) <= 1
    /\ Len(Requested(log[p], "NewClient")) <= 1
    /\ (pc[p] = "returned") => Len(Requested(log[p], "Dial")) = 1
    /\ (pc[p] \in AtRequest) => sess[p] = "open"
    /\ \A k \in 1..Len(log[p]) :
         /\ (log[p][k].req \notin {"Dial", "NewClient"}) =>
              /\ k >= 3
              /\ log[p][1] = [req |-> "Dial", path |-> <<>>, ok |-> TRUE]
              /\ log[p][2] = [req |-> "NewClient", path |-> <<>>, ok |-> TRUE]
         /\ (log[p][k].req = "Client.Close") => k = Len(log[p])

\* ListAllFiles has returned after listing three directories, one inside the
\* other, over the one client it opened.
C11_Witness ==
  /\ Returned(1, "ListAllFiles") /\ err[1] = Nil
  /\ Len(Requested(log[1], "ReadDir")) = 3
  /\ Len(Requested(log[1], "NewClient")) = 1
  /\ sess[1] = "closed"


\* -------------------------------------------------------------------- C12
\* The existence probes: client.Stat in AppendToFile and in the two
\* directory-creating operations.
IsProbe(e) == e.req = "Stat"

\* C12: when an operation has returned, every request of its invocation
\* that the remote failed, be it the dial, the opening of the client, an
\* open, create, write, read, listing, make-directory or the close of the
\* file handle or of the client, is the error it returned, unless the
\* request was an existence probe; so an operation that returns success has
\* had no request but probes fail.
C12_FailuresSurface ==
  \A p \in Procs :
    pc[p] = "returned" =>
      \A k \in 1..Len(log[p]) :
        (~log[p][k].ok /\ ~IsProbe(log[p][k])) =>
          err[p] = Err(log[p][k].req, log[p][k].path)


\* -------------------------------------------------------------------- C13
\* C13: in CreateDirectoryRecursively, once a create has failed, no probe
\* and no create follows and the call returns the error of that create;
\* nothing that was there when the call began is removed or changed, and
\* every directory the call created is still there; and the call returns
\* success only after it has probed every segment of its path and no create
\* has failed.
C13_StopsAtFirstFailedCreate ==
  \A p \in Procs :
    op[p].name = "CreateDirectoryRecursively" =>
      /\ \A k \in 1..Len(log[p]) :
           (log[p][k].req = "Mkdir" /\ ~log[p][k].ok) =>
             /\ \A j \in (k + 1)..Len(log[p]) : log[p][j].req \notin {"Stat", "Mkdir"}
             /\ pc[p] \in {"closeClient", "returned"}
             /\ err[p] = Err("Mkdir", log[p][k].path)
      /\ \A n \in Nodes : (fs0[p][n].kind # "none") => fs[n] = fs0[p][n]
      /\ \A k \in 1..Len(log[p]) :
           (log[p][k].req = "Mkdir" /\ log[p][k].ok) =>
             KindOf(fs, Resolve(log[p][k].path)) = "dir"
      /\ (pc[p] = "returned" /\ err[p] = Nil) =>
           /\ idx[p] > Len(comps[p])
           /\ Len(Requested(log[p], "Stat")) = Len(Resolve(op[p].path))
           /\ \A k \in 1..Len(log[p]) : log[p][k].req = "Mkdir" => log[p][k].ok

\* The call has returned the error of its second create, with a segment of
\* its path left unprobed and the directory of its first create in place.
C13_Witness ==
  /\ Returned(1, "CreateDirectoryRecursively")
  /\ Len(Requested(log[1], "Mkdir")) = 2
  /\ \E k \in 1..Len(log[1]) :
       /\ log[1][k].req = "Mkdir" /\ ~log[1][k].ok
       /\ err[1] = Err("Mkdir", log[1][k].path)
  /\ Len(Requested(log[1], "Stat")) < Len(Resolve(op[1].path))
  /\ KindOf(fs, Resolve(Requested(log[1], "Mkdir")[1])) = "dir"
  /\ KindOf(fs0[1], Resolve(Requested(log[1], "Mkdir")[1])) = "none"


\* -------------------------------------------------------------------- C14
\* C14: in AppendToFile the request after the probe is the open for append
\* when the probe succeeded and the create when it failed, for whatever
\* reason; once the create has succeeded the file holds nothing of what it
\* held, only what the call has written; so a call whose probe failed and
\* that returns success leaves the file holding just its data.
C14_ProbeFailureTruncates ==
  \A p \in Procs :
    op[p].name = "AppendToFile" =>
      /\ \A k \in 1..Len(log[p]) :
           (log[p][k].req = "Stat" /\ k < Len(log[p])) =>
             log[p][k + 1].req = IF log[p][k].ok THEN "OpenFile" ELSE "Create"
      /\ (pc[p] = "openFile") =>
           log[p][Len(log[p])] = [req |-> "Stat", path |-> op[p].path, ok |-> TRUE]
      /\ (pc[p] = "create") =>
           log[p][Len(log[p])] = [req |-> "Stat", path |-> op[p].path, ok |-> FALSE]
      /\ (\E k \in 1..Len(log[p]) : log[p][k].req = "Create" /\ log[p][k].ok) =>
           fs[Resolve(op[p].path)] \in {File(<<>>), File(op[p].data)}
      /\ ( /\ pc[p] = "returned" /\ err[p] = Nil
           /\ \E k \in 1..Len(log[p]) : log[p][k].req = "Stat" /\ ~log[p][k].ok ) =>
           fs[Resolve(op[p].path)] = File(op[p].data)

\* The probe of a file holding "x" failed, and the call has returned success
\* leaving the file holding "y".
C14_Witness ==
  /\ Returned(1, "AppendToFile") /\ err[1] = Nil
  /\ ContentAt(fs0[1], op[1].path) = <<"x">> /\ OpenOk(fs0[1], op[1].path)
  /\ op[1].data = <<"y">>
  /\ \E k \in 1..Len(log[1]) : log[1][k].req = "Stat" /\ ~log[1][k].ok
  /\ ContentAt(fs, op[1].path) = <<"y">>


\* -------------------------------------------------------------------- C15
\* The record name lies below the directory whose records begin with pre.
Below(name, pre) ==
  /\ Len(name) > Len(pre) + 1
  /\ SubSeq(name, 1, Len(pre) + 1) = pre \o <<"/">>

\* Entries k..upto of the listing of frame t, matched against the records
\* of q from position pos on: a file entry against one record, that of the
\* entry; a directory entry against as many records as there are files
\* below the directory, all lying below it.  The position after the last
\* record matched, or 0 when a record does not match.
RECURSIVE Matched(_, _, _, _, _, _)
Matched(f, q, pos, t, k, upto) ==
  IF pos = 0 THEN 0
  ELSE IF k > upto THEN pos
  ELSE LET e == t.files[k]
           c == Cardinality(FilesUnder(f, Resolve(Slash(t.dirPath, e.name))))
       IN IF e.isDir
          THEN IF /\ pos + c - 1 <= Len(q)
                  /\ \A i \in pos..(pos + c - 1) : Below(q[i].name, Slash(t.prefix, e.name))
               THEN Matched(f, q, pos + c, t, k + 1, upto)
               ELSE 0
          ELSE IF pos <= Len(q) /\ q[pos].name = Slash(t.prefix, e.name)
               THEN Matched(f, q, pos + 1, t, k + 1, upto)
               ELSE 0

\* The frames j.. of the walk, each matched for the entries its loop has
\* passed, one frame after the other.
RECURSIVE Walked(_, _, _, _, _)
Walked(f, q, pos, frames, j) ==
  IF j > Len(frames) THEN pos
  ELSE Walked(f, q, Matched(f, q, pos, frames[j], 1, frames[j].i - 1), frames, j + 1)

\* The positions of the records of q below pre are next to each other.
Contiguous(q, pre) ==
  \A i, j \in 1..Len(q) :
    (i < j /\ Below(q[i].name, pre) /\ Below(q[j].name, pre)) =>
      \A m \in i..j : Below(q[m].name, pre)

\* C15: at every step of the walk of ListAllFiles the records gathered are
\* those of the entries the frames have passed, in the order of the listings
\* the remote returned, the records below a subdirectory standing together
\* where the subdirectory stands in its listing; each frame but the first
\* lists the directory entry the frame under it stands at, so one listing at
\* most is being made at a time; no directory is listed twice; and in the
\* list returned the records below any directory are next to each other.
C15_DepthFirstOrder ==
  \A p \in Procs :
    op[p].name = "ListAllFiles" =>
      /\ (stack[p] # <<>>) =>
           Walked(fs0[p], allFiles[p], 1, stack[p], 1) = Len(allFiles[p]) + 1
      /\ \A j \in 2..Len(stack[p]) :
           LET under == stack[p][j - 1]
           IN /\ under.i <= Len(under.files)
              /\ under.files[under.i].isDir
              /\ stack[p][j].dirPath = Slash(under.dirPath, under.files[under.i].name)
              /\ stack[p][j].prefix = Slash(under.prefix, under.files[under.i].name)
      /\ \A i, j \in 1..Len(log[p]) :
           (i < j /\ log[p][i].req = "ReadDir" /\ log[p][j].req = "ReadDir") =>
             Resolve(log[p][i].path) # Resolve(log[p][j].path)
      /\ (pc[p] = "returned") =>
           \A n \in Nodes : Contiguous(ret[p], RelativePath(n, RootOf(p)))

\* The root's listing gave b before a, and that of /a gave b before a: the
\* list returned is /b, /a/b, /a/a.
C15_Witness ==
  /\ Returned(1, "ListAllFiles") /\ err[1] = Nil
  /\ op[1].path = <<"/">>
  /\ Len(ret[1]) = 3
  /\ ret[1][1].name = <<"/", "b">>
  /\ ret[1][2].name = <<"/", "a", "/", "b">>
  /\ ret[1][3].name = <<"/", "a", "/", "a">>


\* -------------------------------------------------------------------- C16
\* The absolute prefixes /s1, /s1/s2, ... of the segments segs.
SegPrefixes(segs) == [i \in 1..Len(segs) |-> Joined(SubSeq(segs, 1, i))]

\* The first of the prefixes pre that does not exist in tree f; Len(pre) + 1
\* when all exist.
FirstMissing(f, pre) ==
  IF \A i \in 1..Len(pre) : StatOk(f, pre[i]) THEN Len(pre) + 1
  ELSE CHOOSE i \in 1..Len(pre) :
         ~StatOk(f, pre[i]) /\ \A j \in 1..(i - 1) : StatOk(f, pre[j])

\* What the segments segs ask of tree f: the probes, the creates and the
\* error.  The prefixes from the first missing one on are created, unless
\* that one lies in a regular file: its create fails and ends the call.
RecOutcome(f, segs) ==
  LET pre == SegPrefixes(segs)
      m == FirstMissing(f, pre)
  IN IF m > Len(pre)
     THEN [stat |-> pre, mkdir |-> <<>>, err |-> Nil]
     ELSE IF MkdirOk(f, pre[m])
          THEN [stat |-> pre, mkdir |-> SubSeq(pre, m, Len(pre)), err |-> Nil]
          ELSE [stat |-> SubSeq(pre, 1, m), mkdir |-> <<pre[m]>>,
                err |-> Err("Mkdir", pre[m])]

\* C16: the probes of CreateDirectoryRecursively are, in order, on the
\* absolute prefixes of the non-empty segments of its argument, and its
\* creates on prefixes it has probed; on a remote that fails no request it
\* can serve, its probes, its creates and its error are those the segments
\* alone ask of the tree, whatever the slashes of the argument; an argument
\* with no segment makes no probe and no create and returns success once
\* connected.
C16_SegmentsDecide ==
  \A p \in Procs :
    op[p].name = "CreateDirectoryRecursively" =>
      LET segs == Resolve(op[p].path)
          st == Requested(log[p], "Stat")
          mk == Requested(log[p], "Mkdir")
      IN /\ Len(st) <= Len(segs)
         /\ st = SubSeq(SegPrefixes(segs), 1, Len(st))
         /\ \A i \in 1..Len(st) : st[i][1] = "/"
         /\ Range(mk) \subseteq Range(st)
         /\ (pc[p] = "returned" /\ ~faults) =>
              [stat |-> st, mkdir |-> mk, err |-> err[p]] = RecOutcome(fs0[p], segs)
         /\ (pc[p] = "returned" /\ segs = <<>>) =>
              /\ st = <<>> /\ mk = <<>>
              /\ (sess[p] = "closed") => err[p] = Nil

\* The call on "a//b/a/" has returned success after the probes of /a, /a/b
\* and /a/b/a and the creates of the last two.
C16_Witness ==
  /\ Returned(1, "CreateDirectoryRecursively") /\ err[1] = Nil
  /\ op[1].path = <<"a", "/", "/", "b", "/", "a", "/">>
  /\ Requested(log[1], "Stat") = SegPrefixes(<<<<"a">>, <<"b">>, <<"a">>>>)
  /\ Len(Requested(log[1], "Mkdir")) = 2


\* -------------------------------------------------------------------- C17
\* The dial or the opening of the client has failed in log l.
ConnectFailed(l) ==
  \E k \in 1..Len(l) : l[k].req \in {"Dial", "NewClient"} /\ ~l[k].ok

\* C17: once the dial or the opening of the client has failed, the
\* operation, whichever it is, has returned the error of that failure, with
\* no result; the failure is the last request it made, it has dialled once,
\* it has made no stat, open, create, write, read, list or make-directory
\* request, and the remote filesystem is as it was.
C17_ConnectFailureReturns ==
  \A p \in Procs :
    ConnectFailed(log[p]) =>
      /\ pc[p] = "returned"
      /\ ~log[p][Len(log[p])].ok
      /\ err[p] = Err(log[p][Len(log[p])].req, <<>>)
      /\ ret[p] = <<>>
      /\ Len(Requested(log[p], "Dial")) = 1
      /\ \A k \in 1..Len(log[p]) : log[p][k].req \in {"Dial", "NewClient"}
      /\ fs = fs0[p]

\* CreateDirectoryIfNotExist has returned the error of the dial, its only
\* request.
C17_Witness ==
  /\ Returned(1, "CreateDirectoryIfNotExist")
  /\ log[1] = <<[req |-> "Dial", path |-> <<>>, ok |-> FALSE]>>
  /\ err[1] = Err("Dial", <<>>)
  /\ ~StatOk(fs, op[1].path)


\* -------------------------------------------------------------------- C18
\* The other caller.
Other(p) == CHOOSE q \in Procs : q # p

\* Caller p made a create of path s right after its probe of s had failed,
\* and the create failed.
LostRace(p, s) ==
  \E k \in 2..Len(log[p]) :
    /\ log[p][k - 1] = [req |-> "Stat", path |-> s, ok |-> FALSE]
    /\ log[p][k] = [req |-> "Mkdir", path |-> s, ok |-> FALSE]

\* C18: of two CreateDirectoryRecursively invocations on one path, on a
\* remote where a create fails only when the directory is there, one at
\* least returns success, and once both have returned every prefix of the
\* path is a directory; an invocation that returns an error returns that of
\* a create of a prefix it had probed as missing and that the other
\* invocation has created.
C18_RaceLeavesPath ==
  /\ (pc[1] = "returned" /\ pc[2] = "returned") =>
       /\ err[1] = Nil \/ err[2] = Nil
       /\ \A s \in Range(PrefixStrings(op[1].path)) : KindOf(fs, Resolve(s)) = "dir"
  /\ \A p \in Procs :
       (pc[p] = "returned" /\ err[p] # Nil) =>
         /\ err[p].req = "Mkdir"
         /\ LostRace(p, err[p].path)
         /\ [req |-> "Mkdir", path |-> err[p].path, ok |-> TRUE] \in Range(log[Other(p)])

\* Both have returned: caller 2, which had created the first prefix, with
\* the error of its create of the second, which caller 1 had created.
C18_Witness ==
  /\ pc[1] = "returned" /\ pc[2] = "returned"
  /\ err[1] = Nil
  /\ err[2] = Err("Mkdir", <<"/", "a", "/", "b">>)
  /\ [req |-> "Mkdir", path |-> <<"/", "a">>, ok |-> TRUE] \in Range(log[2])
  /\ [req |-> "Mkdir", path |-> <<"/", "a", "/", "b", "/", "a">>, ok |-> TRUE] \in Range(log[1])


\* -------------------------------------------------------------------- C19
\* What the file at the path of the two invocations held before either
\* began: the shorter of what they found.
HeldBefore ==
  LET c1 == ContentAt(fs0[1], op[1].path)
      c2 == ContentAt(fs0[2], op[2].path)
  IN IF Len(c1) <= Len(c2) THEN c1 ELSE c2

\* C19: when two AppendToFile invocations on one path have both returned
\* success, the file holds what it held before, followed by the two
\* payloads, in one order or the other.
C19_AppendsKept ==
  ( /\ Returned(1, "AppendToFile") /\ Returned(2, "AppendToFile")
    /\ err[1] = Nil /\ err[2] = Nil ) =>
    ContentAt(fs, op[1].path) \in
      {HeldBefore \o op[1].data \o op[2].data, HeldBefore \o op[2].data \o op[1].data}

====
